---- MODULE Spec2Model ----
(***************************************************************************)
(* Model of the JSON-to-CSV consolidation engine                           *)
(* (app/data_engineering/data_consolidation).  One run of                  *)
(* ConsolidationService.consolidate_files is one action; the blob store    *)
(* (source objects and the consolidated artifact) is the durable state.    *)
(***************************************************************************)
EXTENDS Integers, Sequences, FiniteSets, TLC

\* ---------------------------------------------------------------- bounds
MaxObjects == 2
MaxRuns == 3
MaxEpochSpan == 20
MaxBatch == 2
MaxListLen == 2
MaxTextLen == 3

\* ------------------------------------------------------ program constants
EpochOffset == 946684800
PlausibleUnix == 1000000000
EmptyLastEntry == 1577836800

\* A JSON field that is not present in the object.
Absent == -1
\* A CSV cell without a value (None / NaN, written as the empty string).
NullCell == -1
NotANumber == -2

\* Columns are numbered in the lexicographic order of their names, so the
\* numeric order of the numbers is the order sorted() gives the names.
ColName == <<"measurements_temperature", "metadata_timestamp", "timestamp">>
ColTemperature == 1
ColMetadataTimestamp == 2
ColTimestamp == 3

\* Values the top-level "timestamp" field of a source object may hold.
TopVals == {Absent, 804000001, 804000002}
\* Values the "metadata.timestamp" field of a source object may hold:
\* a device clock that was never set (30 s after 2000-01-01) and a set one.
MetaVals == {Absent, 30, 804000001, 804000002}
\* datetime.now() at the first run, and the seconds the wall clock may
\* advance from one run to the next.
FirstNow == 1760000000
ClockSteps == {0, 1}

\* A source object of the store: well-formed JSON ("json") of the shape
\* {measurements: {temperature}, metadata: {timestamp}?, timestamp?}, or an
\* object whose content does not parse ("bad").
Objects ==
  [kind : {"json"}, top : TopVals, meta : MetaVals]
    \cup {[kind |-> "bad", top |-> Absent, meta |-> Absent]}

\* calc holds the input and the output of the pure functions (epoch
\* translation, column union, flattening) when they are applied on their own.
VARIABLES store, artifact, result, hist, added, now, runs, calc

vars == <<store, artifact, result, hist, added, now, runs, calc>>

\* ------------------------------------------------------------- helpers
Max(a, b) == IF a >= b THEN a ELSE b

SetMin(S) == CHOOSE x \in S : \A y \in S : x <= y

RECURSIVE SortedSeq(_)
\* sorted(set) on a set of integers
SortedSeq(S) ==
  IF S = {} THEN <<>>
  ELSE LET m == SetMin(S) IN <<m>> \o SortedSeq(S \ {m})

Range(s) == {s[i] : i \in DOMAIN s}

\* ------------------------------------------------------ metadata codec
Description(k, n) == [kind |-> k, n |-> n]

FileMetadata(c, l, d, t, cols, f) ==
  [created_at |-> c, last_entry |-> l, description |-> d,
   total_records |-> t, columns |-> cols, files_processed |-> f]

\* FileMetadata.to_dict: the header fields, timestamps as integer seconds
ToDict(m) ==
  [date_created |-> m.created_at, last_entry |-> m.last_entry,
   data_description |-> m.description, total_records |-> m.total_records,
   columns |-> m.columns, files_processed |-> m.files_processed]

\* FileMetadata.from_dict
FromDict(d) ==
  FileMetadata(d.date_created, d.last_entry, d.data_description,
               d.total_records, d.columns, d.files_processed)

\* _create_empty_metadata
CreateEmptyMetadata(t) ==
  FileMetadata(t, EmptyLastEntry, Description("Empty", 0), 0, 0, 0)

\* _micropython_to_unix_timestamp
MicropythonToUnixTimestamp(mp) == mp + EpochOffset

\* consolidate_files, lines 63-72: decode the header of the artifact
DecodeHeader(d) ==
  FromDict([d EXCEPT !.last_entry =
              IF d.last_entry < PlausibleUnix
              THEN MicropythonToUnixTimestamp(d.last_entry)
              ELSE d.last_entry])

\* ------------------------------------------------------- row flattener
\* JsonProcessorAdapter.flatten_json on a source object of the modelled
\* shape: "measurements_temperature", plus "metadata_timestamp" and
\* "timestamp" when the object has the field.  The row keeps the index of
\* the object it came from (src), which the CSV text does not hold.
FlattenKeys(o) ==
  {ColTemperature}
    \cup (IF o.meta # Absent THEN {ColMetadataTimestamp} ELSE {})
    \cup (IF o.top # Absent THEN {ColTimestamp} ELSE {})

FlattenJson(o, id) ==
  [src |-> id,
   vals |-> [c \in FlattenKeys(o) |->
               IF c = ColTemperature THEN 2700 + id
               ELSE IF c = ColMetadataTimestamp THEN o.meta ELSE o.top]]

\* flattened.get(key, 0)
FlatGet(row, c) == IF c \in DOMAIN row.vals THEN row.vals[c] ELSE 0

\* ---------------------------------------------------------- data frames
\* A DataFrame: its columns in order and its rows in order.
EmptyFrame == [columns |-> <<>>, rows |-> <<>>]

\* DataFrame.empty
IsEmptyFrame(df) == Len(df.columns) = 0 \/ Len(df.rows) = 0

\* one row rendered against a column list: absent columns become null cells
ReindexRow(row, cols) ==
  [src |-> row.src,
   vals |-> [c \in Range(cols) |->
               IF c \in DOMAIN row.vals THEN row.vals[c] ELSE NullCell]]

\* DataFrame(rows, columns=cols) and DataFrame.reindex(columns=cols)
Reindex(rows, cols) ==
  [columns |-> cols, rows |-> [i \in DOMAIN rows |-> ReindexRow(rows[i], cols)]]

\* a concatenation that puts the rows of the second frame first
ConcatNewFirst(a, b) == [columns |-> a.columns, rows |-> b.rows \o a.rows]

\* pd.concat([a, b], ignore_index=True) of two frames with equal columns
Concat(a, b) == [columns |-> a.columns, rows |-> a.rows \o b.rows]

\* ---------------------------------------------------- new-file selector
\* a selector that also takes the object exactly at the threshold
IsNewerOrEqual(json_timestamp, lastEntryMicropython) ==
  json_timestamp >= lastEntryMicropython

\* the test of _get_new_files: json_timestamp > last_entry_micropython
IsNewer(json_timestamp, lastEntryMicropython) ==
  json_timestamp > lastEntryMicropython

\* isinstance(json_timestamp, (int, float)); NotANumber stands for a
\* timestamp field that holds a string
IsNumber(json_timestamp) == json_timestamp # NotANumber

RECURSIVE SelectNewFilesStopsAtError(_, _, _)
\* a selector that gives up at the first object it cannot read
SelectNewFilesStopsAtError(files, i, lastEntryMicropython) ==
  IF i > Len(files) \/ files[i].kind # "json" THEN <<>>
  ELSE LET o == files[i]
           rest == SelectNewFilesStopsAtError(files, i + 1,
                                              lastEntryMicropython)
       IN IF /\ IsNumber(FlatGet(FlattenJson(o, i), ColTimestamp))
             /\ IsNewer(FlatGet(FlattenJson(o, i), ColTimestamp),
                        lastEntryMicropython)
          THEN <<i>> \o rest
          ELSE rest

RECURSIVE SelectNewFiles(_, _, _)
\* the loop of _get_new_files over the listing, from index i on
SelectNewFiles(files, i, lastEntryMicropython) ==
  IF i > Len(files) THEN <<>>
  ELSE LET o == files[i]
           rest == SelectNewFiles(files, i + 1, lastEntryMicropython)
       IN IF /\ o.kind = "json"
             /\ IsNumber(FlatGet(FlattenJson(o, i), ColTimestamp))
             /\ IsNewer(FlatGet(FlattenJson(o, i), ColTimestamp),
                        lastEntryMicropython)
          THEN <<i>> \o rest
          ELSE rest

\* a translation back to the device epoch that forgets the shift
UnixToMicropythonNoShift(unix) == unix

\* _get_new_files, "Convert Unix timestamp back to MicroPython timestamp"
UnixToMicropython(unix) == unix - EpochOffset

\* _get_new_files
GetNewFiles(files, lastEntryUnix) ==
  SelectNewFiles(files, 1, UnixToMicropython(lastEntryUnix))

\* ------------------------------------------------------- merge engine
RECURSIVE FlattenAllStopsAtError(_, _, _)
\* a loop that gives up at the first object that does not parse
FlattenAllStopsAtError(files, paths, i) ==
  IF i > Len(paths) THEN <<>>
  ELSE IF files[paths[i]].kind = "json"
       THEN <<FlattenJson(files[paths[i]], paths[i])>>
              \o FlattenAllStopsAtError(files, paths, i + 1)
       ELSE <<>>

RECURSIVE FlattenAll(_, _, _)
\* the loop of _process_json_files: the rows of the paths that parse
FlattenAll(files, paths, i) ==
  IF i > Len(paths) THEN <<>>
  ELSE LET rest == FlattenAll(files, paths, i + 1)
       IN IF files[paths[i]].kind = "json"
          THEN <<FlattenJson(files[paths[i]], paths[i])>> \o rest
          ELSE rest

\* a tracker that compares device-epoch values as they are
TrackedTimestampUnshifted(row) ==
  LET t == FlatGet(row, ColMetadataTimestamp)
  IN IF t > 0 THEN t ELSE 0

\* the timestamp one row contributes to latest_timestamp (0: none)
TrackedTimestamp(row) ==
  LET t == FlatGet(row, ColMetadataTimestamp)
  IN IF t > 0
     THEN (IF t < PlausibleUnix THEN MicropythonToUnixTimestamp(t) ELSE t)
     ELSE 0

RECURSIVE LatestTimestamp(_, _)
\* latest_timestamp after the loop (0 stands for None)
LatestTimestamp(rows, i) ==
  IF i > Len(rows) THEN 0
  ELSE Max(TrackedTimestamp(rows[i]), LatestTimestamp(rows, i + 1))

\* all_keys after the loop: a set, updated with the keys of each row
AllKeys(rows) == UNION {DOMAIN rows[i].vals : i \in DOMAIN rows}

RECURSIVE ArrivalOrder(_, _, _)
ArrivalOrder(rows, i, acc) ==
  IF i > Len(rows) THEN acc
  ELSE ArrivalOrder(rows, i + 1,
                    acc \o SortedSeq(DOMAIN rows[i].vals \ Range(acc)))

\* a header that lists the keys in the order the rows brought them
KeysInArrivalOrder(rows) == ArrivalOrder(rows, 1, <<>>)

\* sorted_keys = sorted(all_keys) if all_keys else []
SortedKeys(rows) == SortedSeq(AllKeys(rows))

\* an update that counts only the rows of this run
NewMetadataForgetsPrior(hasExisting, existing, t, last_entry, nrows, ncols, processed_count) ==
  IF hasExisting
  THEN FileMetadata(existing.created_at, last_entry,
                    Description("Updated", processed_count),
                    nrows, ncols, processed_count)
  ELSE FileMetadata(t, last_entry, Description("Initial", processed_count),
                    nrows, ncols, processed_count)

\* an initial run that records the column count as total_records
NewMetadataCountsColumns(hasExisting, existing, t, last_entry, nrows, ncols, processed_count) ==
  IF hasExisting
  THEN FileMetadata(existing.created_at, last_entry,
                    Description("Updated", processed_count),
                    existing.total_records + nrows, ncols,
                    existing.files_processed + processed_count)
  ELSE FileMetadata(t, last_entry, Description("Initial", processed_count),
                    ncols, ncols, processed_count)

\* an update that stamps created_at with the time of the run
NewMetadataRestamps(hasExisting, existing, t, last_entry, nrows, ncols, processed_count) ==
  IF hasExisting
  THEN FileMetadata(t, last_entry,
                    Description("Updated", processed_count),
                    existing.total_records + nrows, ncols,
                    existing.files_processed + processed_count)
  ELSE FileMetadata(t, last_entry, Description("Initial", processed_count),
                    nrows, ncols, processed_count)

\* _process_json_files, "Create/update metadata"
\* (hasExisting: existing_metadata is not None)
NewMetadata(hasExisting, existing, t, last_entry, nrows, ncols, processed_count) ==
  IF hasExisting
  THEN FileMetadata(existing.created_at, last_entry,
                    Description("Updated", processed_count),
                    existing.total_records + nrows, ncols,
                    existing.files_processed + processed_count)
  ELSE FileMetadata(t, last_entry, Description("Initial", processed_count),
                    nrows, ncols, processed_count)

\* _process_json_files: the new metadata and the frame of the new rows
ProcessJsonFiles(files, paths, hasExisting, existing, t) ==
  LET all_flattened_data == FlattenAll(files, paths, 1)
      sorted_keys == SortedKeys(all_flattened_data)
      processed_count == Len(all_flattened_data)
      latest == LatestTimestamp(all_flattened_data, 1)
      last_entry == IF latest # 0 THEN latest ELSE t
  IN [metadata |-> NewMetadata(hasExisting, existing, t, last_entry,
                               Len(all_flattened_data), Len(sorted_keys),
                               processed_count),
      df |-> Reindex(all_flattened_data, sorted_keys)]

\* the artifact text: '#' + header JSON, the column row, the data rows
\* (header: "ok" when the first line is '#' + JSON that parses, "nohash"
\* when it does not start with '#', "badjson" when the JSON does not parse;
\* body: "ok" when read_csv reads the lines after the header, "bad" when it
\* raises on them)
NoArtifact ==
  [exists |-> FALSE, header |-> "ok", body |-> "ok",
   meta |-> ToDict(CreateEmptyMetadata(0)), columns |-> <<>>, rows |-> <<>>]

Artifact(m, df) ==
  [exists |-> TRUE, header |-> "ok", body |-> "ok", meta |-> ToDict(m),
   columns |-> df.columns, rows |-> df.rows]

\* consolidate_files, lines 54-61: the artifact is fetched, its first line
\* starts with '#' and the rest of the line parses
HeaderParses(a) == a.exists /\ a.header = "ok"

\* consolidate_files, lines 78-83: read_csv returns a frame
BodyParses(a) == a.body = "ok"

\* a reader that loses the last data row of the body
ReadCsvDropsLastRow(a) ==
  IF Len(a.columns) = 0 THEN EmptyFrame
  ELSE [columns |-> a.columns, rows |-> SubSeq(a.rows, 1, Len(a.rows) - 1)]

\* pd.read_csv of the body of the existing artifact (consolidate_files 78-83)
ReadCsv(a) ==
  IF Len(a.columns) = 0 THEN EmptyFrame
  ELSE [columns |-> a.columns, rows |-> a.rows]

ConsolidationResult(s, csv, m, n, e) ==
  [success |-> s, csv_content |-> csv, metadata |-> m, files_processed |-> n,
   error_message |-> e]

\* a merge that writes the new rows only
MergeFramesDropsExisting(df_existing, df_new) ==
  IF ~IsEmptyFrame(df_new) THEN df_new ELSE df_existing

\* _append_new_data, "Ensure column consistency when combining DataFrames"
MergeFrames(df_existing, df_new) ==
  LET all_columns ==
        SortedSeq(Range(df_existing.columns) \cup Range(df_new.columns))
  IN IF ~IsEmptyFrame(df_existing) /\ ~IsEmptyFrame(df_new)
     THEN Concat(Reindex(df_existing.rows, all_columns),
                 Reindex(df_new.rows, all_columns))
     ELSE IF ~IsEmptyFrame(df_existing) THEN df_existing ELSE df_new

\* a no-op run that answers with an empty metadata
NoNewFilesResultEmptyMetadata(existing_metadata) ==
  ConsolidationResult(TRUE, NoArtifact,
                      CreateEmptyMetadata(existing_metadata.created_at), 0,
                      "No new files to process")

\* _append_new_data, "if not new_files"
NoNewFilesResult(existing_metadata) ==
  ConsolidationResult(TRUE, NoArtifact, existing_metadata, 0,
                      "No new files to process")

\* a run that returns nothing of what it computed when the write fails
StoredResultDropsOnFailure(success, csv_str, metadata, n) ==
  IF success THEN ConsolidationResult(success, csv_str, metadata, n, "")
  ELSE ConsolidationResult(success, NoArtifact, CreateEmptyMetadata(0), 0, "")

\* the result returned after store_file was called: success is its return
\* value, error_message is left at its default
StoredResult(success, csv_str, metadata, n) ==
  ConsolidationResult(success, csv_str, metadata, n, "")

\* an incremental run that writes the artifact even when it selected nothing
AppendNewDataAlwaysWrites(files, existing_metadata, df_existing, storeOk, t, stored) ==
  LET new_files == GetNewFiles(files, existing_metadata.last_entry)
      p == ProcessJsonFiles(files, new_files, TRUE, existing_metadata, t)
      csv_str == Artifact(p.metadata, MergeFrames(df_existing, p.df))
  IN [result |-> StoredResult(storeOk, csv_str, p.metadata, Len(new_files)),
      stored |-> IF storeOk THEN csv_str ELSE stored,
      new_files |-> new_files, store_calls |-> 1]

\* _append_new_data: the result, the artifact the store holds afterwards
\* and the work list
AppendNewData(files, existing_metadata, df_existing, storeOk, t, stored) ==
  LET last_entry_unix == existing_metadata.last_entry
      new_files == GetNewFiles(files, last_entry_unix)
      p == ProcessJsonFiles(files, new_files, TRUE, existing_metadata, t)
      df_final == MergeFrames(df_existing, p.df)
      csv_str == Artifact(p.metadata, df_final)
  IN IF Len(new_files) = 0
     THEN [result |-> NoNewFilesResult(existing_metadata),
           stored |-> stored, new_files |-> new_files, store_calls |-> 0]
     ELSE [result |-> StoredResult(storeOk, csv_str, p.metadata,
                                   Len(new_files)),
           stored |-> IF storeOk THEN csv_str ELSE stored,
           new_files |-> new_files, store_calls |-> 1]

\* _generate_initial_csv
GenerateInitialCsv(files, storeOk, t, stored) ==
  LET all_files == [i \in 1..Len(files) |-> i]
      p == ProcessJsonFiles(files, all_files, FALSE, CreateEmptyMetadata(t), t)
      csv_str == Artifact(p.metadata, p.df)
  IN IF Len(all_files) = 0
     THEN [result |-> ConsolidationResult(TRUE, NoArtifact,
                                          CreateEmptyMetadata(t), 0, ""),
           stored |-> stored, new_files |-> all_files, store_calls |-> 0]
     ELSE [result |-> StoredResult(storeOk, csv_str, p.metadata,
                                   Len(all_files)),
           stored |-> IF storeOk THEN csv_str ELSE stored,
           new_files |-> all_files, store_calls |-> 1]

\* a run that takes any artifact it can fetch for a consolidated one
ConsolidateFilesTrustsArtifact(files, stored, storeOk, t) ==
  IF stored.exists
  THEN AppendNewData(files, DecodeHeader(stored.meta), ReadCsv(stored),
                     storeOk, t, stored)
  ELSE GenerateInitialCsv(files, storeOk, t, stored)

\* consolidate_files: incremental when the artifact exists and its header
\* and body parse; initial otherwise, also when the inner except caught
\* the exception of read_csv
ConsolidateFiles(files, stored, storeOk, t) ==
  IF HeaderParses(stored) /\ BodyParses(stored)
  THEN AppendNewData(files, DecodeHeader(stored.meta), ReadCsv(stored),
                     storeOk, t, stored)
  ELSE GenerateInitialCsv(files, storeOk, t, stored)

\* ------------------------------------------------------- state machine
NoCalc == [stage |-> "none"]

NoResult == ConsolidationResult(FALSE, NoArtifact, CreateEmptyMetadata(0), 0, "")

\* What the last run did, and what the runs before it returned.
NoHist ==
  [path |-> "none", listing |-> <<>>, new_files |-> <<>>,
   prior |-> CreateEmptyMetadata(0),
   before |-> NoArtifact, store_calls |-> 0, store_ok |-> FALSE,
   no_add |-> FALSE,
   had_prev |-> FALSE, prev |-> NoResult,
   had_prev_success |-> FALSE, prev_success |-> CreateEmptyMetadata(0)]

Init ==
  /\ store = <<>>
  /\ artifact = NoArtifact
  /\ result = NoResult
  /\ hist = NoHist
  /\ added = FALSE
  /\ now = FirstNow
  /\ runs = 0
  /\ calc = NoCalc

\* A new source object is written to the store (the ingestion side).
AddObject(o) ==
  /\ Len(store) < MaxObjects
  /\ store' = Append(store, o)
  /\ added' = TRUE
  /\ UNCHANGED <<artifact, result, hist, now, runs, calc>>

\* One run of consolidate_files against the artifact path.
Consolidate(storeOk, step) ==
  /\ runs < MaxRuns
  /\ LET t == IF runs = 0 THEN now ELSE now + step
         r == ConsolidateFiles(store, artifact, storeOk, t)
     IN /\ now' = t
        /\ artifact' = r.stored
        /\ result' = r.result
        /\ hist' =
             [path |-> IF HeaderParses(artifact) /\ BodyParses(artifact)
                       THEN "incremental" ELSE "initial",
              listing |-> store,
              new_files |-> r.new_files,
              prior |-> IF HeaderParses(artifact)
                        THEN DecodeHeader(artifact.meta)
                        ELSE CreateEmptyMetadata(0),
              before |-> artifact,
              store_calls |-> r.store_calls,
              store_ok |-> storeOk,
              no_add |-> ~added,
              had_prev |-> runs > 0,
              prev |-> result,
              had_prev_success |-> hist.had_prev_success
                                     \/ (runs > 0 /\ result.success),
              prev_success |-> IF runs > 0 /\ result.success
                               THEN result.metadata ELSE hist.prev_success]
  /\ runs' = runs + 1
  /\ added' = FALSE
  /\ UNCHANGED <<store, calc>>

Next ==
  \/ \E o \in Objects : AddObject(o)
  \/ \E storeOk \in BOOLEAN, step \in ClockSteps : Consolidate(storeOk, step)

Spec == Init /\ [][Next]_vars

\* The artifact path is overwritten from outside with a text whose first
\* line is not a metadata header.
CorruptArtifact(h) ==
  /\ runs < MaxRuns
  /\ artifact.exists
  /\ artifact.header = "ok"
  /\ artifact' = [artifact EXCEPT !.header = h]
  /\ UNCHANGED <<store, result, hist, added, now, runs, calc>>

NextCorrupt ==
  \/ Next
  \/ \E h \in {"nohash", "badjson"} : CorruptArtifact(h)

\* the runs of Spec, with an artifact that may be corrupted between runs
SpecCorrupt == Init /\ [][NextCorrupt]_vars

\* The body of the artifact is overwritten from outside with lines read_csv
\* raises on; the metadata line is left as it was.
CorruptBody ==
  /\ runs < MaxRuns
  /\ HeaderParses(artifact)
  /\ BodyParses(artifact)
  /\ artifact' = [artifact EXCEPT !.body = "bad"]
  /\ UNCHANGED <<store, result, hist, added, now, runs, calc>>

NextFaults == Next \/ CorruptBody

\* the runs of Spec, with an artifact whose body may be damaged between runs
SpecFaults == Init /\ [][NextFaults]_vars

\* ------------------------------------------------------------- claims
\* The reading timestamp of a source object in the standard epoch: its
\* metadata.timestamp, shifted when it is a device-epoch value.
ReadingTimestamp(o) ==
  IF o.meta < PlausibleUnix THEN o.meta + EpochOffset ELSE o.meta

\* The claims speak of the listing the last run saw (hist.listing).
AllWellFormed == \A i \in DOMAIN hist.listing : hist.listing[i].kind = "json"

\* every listed object is a SensorReading: well-formed, its timestamp in
\* metadata.timestamp, no top-level "timestamp" field
AllSensorReadings ==
  \A i \in DOMAIN hist.listing :
    /\ hist.listing[i].kind = "json"
    /\ hist.listing[i].meta # Absent
    /\ hist.listing[i].top = Absent

Sources(rows) == {rows[i].src : i \in DOMAIN rows}

NoDuplicateSource(rows) ==
  \A i, j \in DOMAIN rows : i # j => rows[i].src # rows[j].src

\* C1: across any sequence of runs, every source object contributes at most
\* one data row to the stored artifact (no object is consumed twice).
C1_NoObjectConsumedTwice == NoDuplicateSource(artifact.rows)

\* C2: an incremental run over a listing of sensor readings in which k
\* objects have a reading timestamp > last_entry T and the others <= T
\* processes exactly those k objects, succeeds, and total_records becomes
\* R + k.
C2_IncrementalProcessesNewer ==
  (hist.path = "incremental" /\ AllSensorReadings) =>
    LET T == hist.prior.last_entry
        k == Cardinality({i \in DOMAIN hist.listing : ReadingTimestamp(hist.listing[i]) > T})
    IN /\ result.files_processed = k
       /\ result.success
       /\ result.metadata.total_records = hist.prior.total_records + k

SameExceptDescription(m1, m2) ==
  /\ m1.created_at = m2.created_at
  /\ m1.last_entry = m2.last_entry
  /\ m1.total_records = m2.total_records
  /\ m1.columns = m2.columns
  /\ m1.files_processed = m2.files_processed

\* C3: a run that follows a run which left the artifact in the store, with
\* no source object added in between, reports zero objects processed and
\* returns the metadata of the first run, description aside.
C3_NoOpStability ==
  (hist.had_prev /\ hist.no_add /\ hist.prev.success
     /\ hist.path = "incremental") =>
    /\ result.files_processed = 0
    /\ SameExceptDescription(result.metadata, hist.prev.metadata)

C5_CountsMonotone ==
  (hist.had_prev_success /\ result.success) =>
    /\ result.metadata.total_records >= hist.prev_success.total_records
    /\ result.metadata.files_processed >= hist.prev_success.files_processed

C5_Witness ==
  /\ hist.had_prev_success
  /\ result.success
  /\ hist.path = "incremental"
  /\ result.metadata.total_records > hist.prev_success.total_records
  /\ result.metadata.files_processed > hist.prev_success.files_processed

\* C6 as stated: an initial run over N well-formed objects returns
\* success = true, files_processed = N, total_records = N, and the stored
\* artifact holds one data row for each of the N objects.
C6_InitialRunSucceeds ==
  (hist.path = "initial" /\ AllWellFormed) =>
    /\ result.success
    /\ result.files_processed = Len(hist.listing)
    /\ result.metadata.total_records = Len(hist.listing)
    /\ (Len(hist.listing) > 0 =>
          /\ artifact.exists
          /\ Len(artifact.rows) = Len(hist.listing)
          /\ Sources(artifact.rows) = DOMAIN hist.listing)

\* C6 amended: the counts are as stated; success is the outcome of
\* store_file, and the rows are stored when it is true.
C6_InitialRunCounts ==
  (hist.path = "initial" /\ AllWellFormed) =>
    /\ result.files_processed = Len(hist.listing)
    /\ result.metadata.total_records = Len(hist.listing)
    /\ result.success = (Len(hist.listing) = 0 \/ hist.store_ok)
    /\ (Len(hist.listing) > 0 =>
          /\ Len(result.csv_content.rows) = Len(hist.listing)
          /\ Sources(result.csv_content.rows) = DOMAIN hist.listing)
    /\ ((Len(hist.listing) > 0 /\ hist.store_ok) =>
          /\ artifact.exists
          /\ Len(artifact.rows) = Len(hist.listing)
          /\ Sources(artifact.rows) = DOMAIN hist.listing)

C6_Witness ==
  /\ hist.path = "initial"
  /\ AllWellFormed
  /\ Len(hist.listing) = 2
  /\ result.success
  /\ Len(artifact.rows) = 2

\* the keys of the rows an incremental run appended
NewKeys == UNION {FlattenKeys(hist.listing[i]) : i \in Range(hist.new_files)}

Merged ==
  /\ hist.path = "incremental"
  /\ Len(hist.new_files) > 0
  /\ Len(hist.before.rows) > 0

\* C7: after an incremental run that merges existing and new rows, the
\* columns are the sorted union of the existing columns and the new rows'
\* keys, every pre-existing row is still there, and it is empty in every
\* column only the new rows introduced.
C7_SchemaEvolution ==
  Merged =>
    LET old == hist.before
        out == result.csv_content
    IN /\ out.columns = SortedSeq(Range(old.columns) \cup NewKeys)
       /\ Len(out.rows) >= Len(old.rows)
       /\ \A i \in DOMAIN old.rows :
            /\ out.rows[i].src = old.rows[i].src
            /\ \A c \in Range(out.columns) :
                 out.rows[i].vals[c] =
                   IF c \in Range(old.columns) THEN old.rows[i].vals[c]
                   ELSE NullCell
       /\ (result.success => artifact = out)

C7_Witness ==
  /\ Merged
  /\ result.success
  /\ \E c \in Range(artifact.columns) :
       /\ c \notin Range(hist.before.columns)
       /\ artifact.rows[1].vals[c] = NullCell
  /\ \E c \in Range(hist.before.columns) : c \notin NewKeys

\* C8: a run with an empty candidate list returns success with zero objects
\* processed; on the incremental path the metadata is exactly the one
\* decoded from the existing header, on the initial path it is a fresh
\* empty metadata (total_records, columns, files_processed all 0).
C8_NoOpRun ==
  (hist.path # "none" /\ Len(hist.new_files) = 0) =>
    /\ result.success
    /\ result.files_processed = 0
    /\ (hist.path = "incremental" =>
          result.metadata = DecodeHeader(hist.before.meta))
    /\ (hist.path = "initial" =>
          /\ result.metadata.total_records = 0
          /\ result.metadata.columns = 0
          /\ result.metadata.files_processed = 0)

C8_Witness ==
  /\ hist.path = "incremental"
  /\ Len(hist.new_files) = 0
  /\ Len(hist.listing) > 0
  /\ result.metadata.total_records > 0

\* C9: an incremental run keeps the created_at of the prior metadata; an
\* initial run sets created_at to the time of the run.
C9_CreatedAtPreserved ==
  /\ hist.path = "incremental" =>
       result.metadata.created_at = hist.before.meta.date_created
  /\ hist.path = "initial" => result.metadata.created_at = now

C9_Witness ==
  /\ hist.path = "incremental"
  /\ Len(hist.new_files) > 0
  /\ result.metadata.created_at < now

\* C10: last_entry never moves backwards from one successful run to the
\* next successful run against the artifact it left.
C10_LastEntryMonotone ==
  (hist.had_prev_success /\ result.success /\ hist.path = "incremental") =>
    result.metadata.last_entry >= hist.prev_success.last_entry

\* the candidates of the last run that parse, in processing order
ParsedCandidates ==
  SelectSeq(hist.new_files, LAMBDA i : hist.listing[i].kind = "json")

SkippedCandidates ==
  {i \in Range(hist.new_files) : hist.listing[i].kind = "bad"}

C12_ProcessedCountExcludesSkipped ==
  hist.path # "none" =>
    /\ result.files_processed = Len(ParsedCandidates)
    /\ result.files_processed =
         result.metadata.files_processed
           - (IF hist.path = "incremental" THEN hist.prior.files_processed
              ELSE 0)

\* the last run found an artifact whose header does not parse
FoundCorrupt == hist.path = "initial" /\ hist.before.exists

WellFormedListed == {i \in DOMAIN hist.listing : hist.listing[i].kind = "json"}

\* C13: a present-but-corrupt artifact degrades to an initial run: the run
\* consolidates all listed objects, does not fail (its success is the
\* outcome of the write) and reuses no row of the existing body.
C13_CorruptDegradesToInitial ==
  FoundCorrupt =>
    /\ hist.new_files = [i \in 1..Len(hist.listing) |-> i]
    /\ result.metadata.total_records = Cardinality(WellFormedListed)
    /\ result.metadata.created_at = now
    /\ result.error_message = ""
    /\ result.success = (Len(hist.listing) = 0 \/ hist.store_ok)
    /\ (Len(hist.listing) > 0 =>
          /\ Sources(result.csv_content.rows) = WellFormedListed
          /\ NoDuplicateSource(result.csv_content.rows)
          /\ result.csv_content.header = "ok")
    /\ ((Len(hist.listing) > 0 /\ hist.store_ok) =>
          /\ artifact.meta = result.csv_content.meta
          /\ artifact.columns = result.csv_content.columns
          /\ artifact.rows = result.csv_content.rows)

C13_Witness ==
  /\ FoundCorrupt
  /\ Len(hist.before.rows) > 0
  /\ hist.before.header = "nohash"
  /\ result.success
  /\ HeaderParses(artifact)
  /\ Len(artifact.rows) = 2

\* C14: every failure path of a run returns success=false together with a
\* non-empty descriptive error_message (error_message None is modelled
\* as the empty string).
C14_FailureCarriesMessage ==
  (hist.path # "none" /\ ~result.success) => result.error_message # ""

\* what the last run would have returned had its write succeeded
HadWriteSucceeded ==
  ConsolidateFiles(hist.listing, hist.before, TRUE, now).result

\* C15: when store_file returns false the result has success=false and
\* still carries the computed artifact content, the updated metadata and
\* the processed count, the same as had the write succeeded; the stored
\* artifact is left as it was.
C15_FailedWriteKeepsComputation ==
  (hist.store_calls = 1 /\ ~hist.store_ok) =>
    /\ ~result.success
    /\ result.csv_content = HadWriteSucceeded.csv_content
    /\ result.metadata = HadWriteSucceeded.metadata
    /\ result.files_processed = HadWriteSucceeded.files_processed
    /\ result.csv_content.exists
    /\ result.csv_content.meta = ToDict(result.metadata)
    /\ result.files_processed = Len(hist.new_files)
    /\ Len(result.csv_content.rows) =
         (IF hist.path = "incremental" THEN Len(hist.before.rows) ELSE 0)
           + Len(ParsedCandidates)
    /\ artifact = hist.before

C15_Witness ==
  /\ hist.path = "incremental"
  /\ hist.store_calls = 1
  /\ ~hist.store_ok
  /\ Len(hist.before.rows) > 0
  /\ Len(result.csv_content.rows) > Len(hist.before.rows)
  /\ result.metadata.total_records = Len(result.csv_content.rows)
  /\ ~result.success

\* C16: the columns field of the metadata a run writes equals the number of
\* columns in the header row of the artifact the same run writes.
C16_ColumnsFieldIsHeaderWidth ==
  hist.store_calls = 1 =>
    result.metadata.columns = Len(result.csv_content.columns)

StrictlyIncreasing(cols) ==
  \A i, j \in DOMAIN cols : i < j => cols[i] < cols[j]

\* C17: the artifact an incremental run writes holds the rows of the
\* existing artifact first, in their previous order and with their cells,
\* then the rows of the objects parsed in this run in processing order; the
\* header row is the sorted column set, every row is rendered against it,
\* and one metadata line precedes it.
C17_AccumulationOrder ==
  (hist.path = "incremental" /\ hist.store_calls = 1) =>
    LET old == hist.before.rows
        out == result.csv_content.rows
    IN /\ Len(out) = Len(old) + Len(ParsedCandidates)
       /\ \A i \in DOMAIN old :
            /\ out[i].src = old[i].src
            /\ \A c \in DOMAIN old[i].vals : out[i].vals[c] = old[i].vals[c]
       /\ \A j \in DOMAIN ParsedCandidates :
            out[Len(old) + j].src = ParsedCandidates[j]
       /\ StrictlyIncreasing(result.csv_content.columns)
       /\ \A i \in DOMAIN out :
            DOMAIN out[i].vals = Range(result.csv_content.columns)
       /\ result.csv_content.header = "ok"
       /\ result.csv_content.meta = ToDict(result.metadata)

C17_Witness ==
  /\ hist.path = "incremental"
  /\ hist.store_calls = 1
  /\ hist.store_ok
  /\ Len(hist.before.rows) = 1
  /\ Len(artifact.rows) = 2
  /\ artifact.rows[1].src = 1
  /\ artifact.rows[2].src = 2
  /\ Len(artifact.columns) > Len(hist.before.columns)

\* ------------------------------------------------ epoch translation alone
\* Device timestamps given to the translation: around zero (before and
\* after the device epoch), at the heuristic threshold, of a set clock, and
\* the device time of the standard epoch.
EpochInputs ==
  (-MaxEpochSpan .. MaxEpochSpan)
    \cup {PlausibleUnix - EpochOffset - 1, PlausibleUnix - EpochOffset,
          804000001, 804000002, -EpochOffset, EpochOffset, PlausibleUnix}

\* the service is not running
Idle ==
  /\ store = <<>>
  /\ artifact = NoArtifact
  /\ result = NoResult
  /\ hist = NoHist
  /\ added = FALSE
  /\ now = FirstNow
  /\ runs = 0

InitEpoch ==
  /\ Idle
  /\ calc \in [stage : {"device"}, t : EpochInputs]

\* _micropython_to_unix_timestamp applied to a device timestamp
ToStandardEpoch ==
  /\ calc.stage = "device"
  /\ calc' = [stage |-> "standard", t |-> calc.t,
              unix |-> MicropythonToUnixTimestamp(calc.t)]
  /\ UNCHANGED <<store, artifact, result, hist, added, now, runs>>

\* the translation of _get_new_files applied to the standard timestamp
ToDeviceEpoch ==
  /\ calc.stage = "standard"
  /\ calc' = [stage |-> "back", t |-> calc.t, unix |-> calc.unix,
              back |-> UnixToMicropython(calc.unix)]
  /\ UNCHANGED <<store, artifact, result, hist, added, now, runs>>

NextEpoch == ToStandardEpoch \/ ToDeviceEpoch

SpecEpoch == InitEpoch /\ [][NextEpoch]_vars

\* C18: the device-to-standard conversion adds 946684800, the
\* standard-to-device conversion subtracts 946684800, and converting a
\* device timestamp to the standard epoch and back returns it.
C18_EpochRoundTrip ==
  /\ calc.stage \in {"standard", "back"} => calc.unix - calc.t = 946684800
  /\ calc.stage = "back" =>
       /\ calc.unix - calc.back = 946684800
       /\ calc.back = calc.t

C18_Witness ==
  /\ calc.stage = "back"
  /\ calc.t = 804000001
  /\ calc.unix = 1750684801
  /\ calc.back = 804000001

\* -------------------------------------------------- column union alone
\* a batch of source objects, and the orders it can be processed in
Batches == UNION {[1..n -> Objects] : n \in 0..MaxBatch}

InitColumns ==
  /\ Idle
  /\ calc \in [stage : {"batch"}, files : Batches]

\* _process_json_files over the batch in the order perm, next to the same
\* batch in listing order
ProcessInOrder(perm) ==
  /\ calc.stage = "batch"
  /\ calc' =
       [stage |-> "columns", files |-> calc.files, order |-> perm,
        columns |-> ProcessJsonFiles(calc.files, perm, FALSE,
                                     CreateEmptyMetadata(FirstNow),
                                     FirstNow).df.columns,
        listed |-> ProcessJsonFiles(calc.files,
                                    [i \in 1..Len(calc.files) |-> i], FALSE,
                                    CreateEmptyMetadata(FirstNow),
                                    FirstNow).df.columns]
  /\ UNCHANGED <<store, artifact, result, hist, added, now, runs>>

NextColumns ==
  \E perm \in Permutations(1..Len(calc.files)) : ProcessInOrder(perm)

SpecColumns == InitColumns /\ [][NextColumns]_vars

\* C19: processing a set of source objects in any permutation yields the
\* same column list: the union of their keys, sorted and duplicate-free.
C19_ColumnUnionOrderIndependent ==
  calc.stage = "columns" =>
    /\ calc.columns = calc.listed
    /\ StrictlyIncreasing(calc.columns)
    /\ Range(calc.columns) =
         UNION {FlattenKeys(calc.files[i]) :
                  i \in {j \in DOMAIN calc.files : calc.files[j].kind = "json"}}

C19_Witness ==
  /\ calc.stage = "columns"
  /\ calc.order = <<2, 1>>
  /\ FlattenKeys(calc.files[1]) = {ColTemperature, ColMetadataTimestamp}
  /\ FlattenKeys(calc.files[2]) = {ColTemperature, ColTimestamp}
  /\ calc.columns = <<ColTemperature, ColMetadataTimestamp, ColTimestamp>>

\* ------------------------------------------------------ flattening alone
\* JSON values: numbers, null, lists and objects.  An object is a function
\* from the keys it has to values; its keys are visited in the order of
\* KeyOrder (two rows of one object never meet on a key with these keys,
\* so the order of the insertions does not show in the row).
Num(n) == [tag |-> "num", n |-> n]

Null == [tag |-> "null"]

Str(s) == [tag |-> "str", s |-> s]

List(s) == [tag |-> "list", items |-> s]

Dict(f) == [tag |-> "dict", fields |-> f]

KeyOrder == <<"a", "b">>

Scalars == {Num(1), Null}

\* lists and objects whose members are taken from S
Containers(S) ==
  {List(s) : s \in UNION {[1..n -> S] : n \in 0..MaxListLen}}
    \cup {Dict(f) : f \in UNION {[K -> S] : K \in SUBSET Range(KeyOrder)}}

Nested1 == Scalars \cup Containers(Scalars)

Nested2 == Scalars \cup Containers(Nested1)

\* the documents flattened: one key over two levels of nesting, or any keys
\* over one level
JsonDocuments ==
  {Dict([k \in {KeyOrder[1]} |-> v]) : v \in Nested2}
    \cup {Dict(f) : f \in UNION {[K -> Nested1] : K \in SUBSET Range(KeyOrder)}}

IsContainer(v) == v.tag \in {"list", "dict"}

\* f"{parent_key}{separator}{key}" if parent_key else key
NewKey(parent_key, key) ==
  IF parent_key # "" THEN parent_key \o "_" \o key ELSE key

RECURSIVE FlattenItems(_, _, _)
RECURSIVE FlattenListItems(_, _, _)
\* flatten_json, "for i, item in enumerate(value)": the items of the
\* elements from position i on (positions count from 1 here, from 0 in
\* the keys)
FlattenListItems(value, new_key, i) ==
  IF i > Len(value) THEN <<>>
  ELSE (IF value[i].tag = "dict"
        THEN FlattenItems(value[i].fields,
                          new_key \o "_" \o ToString(i - 1), 1)
        ELSE <<[k |-> new_key \o "_" \o ToString(i - 1), v |-> value[i]]>>)
       \o FlattenListItems(value, new_key, i + 1)

\* flatten_json, "for key, value in json_data.items()": the items list built
\* from the keys at position p of KeyOrder on
FlattenItems(json_data, parent_key, p) ==
  IF p > Len(KeyOrder) THEN <<>>
  ELSE IF KeyOrder[p] \notin DOMAIN json_data
       THEN FlattenItems(json_data, parent_key, p + 1)
       ELSE LET value == json_data[KeyOrder[p]]
                new_key == NewKey(parent_key, KeyOrder[p])
            IN (IF value.tag = "dict"
                THEN FlattenItems(value.fields, new_key, 1)
                ELSE IF value.tag = "list"
                     THEN FlattenListItems(value.items, new_key, 1)
                     ELSE <<[k |-> new_key, v |-> value]>>)
               \o FlattenItems(json_data, parent_key, p + 1)

\* dict(items): the last item of a key gives its value
DictOfItems(items) ==
  [key \in {items[i].k : i \in DOMAIN items} |->
     items[CHOOSE i \in DOMAIN items :
             /\ items[i].k = key
             /\ \A j \in DOMAIN items : items[j].k = key => j <= i].v]

\* JsonProcessorAdapter.flatten_json(json_data)
FlattenJsonData(json_data) == DictOfItems(FlattenItems(json_data.fields, "", 1))

InitFlatten ==
  /\ Idle
  /\ calc \in [stage : {"json"}, json_data : JsonDocuments]

\* the flattener FilesToCSV wires into the service
FlattenDocument ==
  /\ calc.stage = "json"
  /\ calc' = [stage |-> "flat", adapter |-> "JsonProcessorAdapter",
              preserve_types |-> FALSE, json_data |-> calc.json_data,
              flattened |-> FlattenJsonData(calc.json_data)]
  /\ UNCHANGED <<store, artifact, result, hist, added, now, runs>>

RECURSIVE AdvancedFlattenItems(_, _, _, _)
RECURSIVE AdvancedFlattenListItems(_, _, _, _)
\* AdvancedJsonProcessorAdapter.flatten_json, the loop over a non-empty list
AdvancedFlattenListItems(value, new_key, i, preserve_types) ==
  IF i > Len(value) THEN <<>>
  ELSE (IF value[i].tag = "dict"
        THEN AdvancedFlattenItems(value[i].fields,
                                  new_key \o "_" \o ToString(i - 1), 1,
                                  preserve_types)
        ELSE <<[k |-> new_key \o "_" \o ToString(i - 1), v |-> value[i]]>>)
       \o AdvancedFlattenListItems(value, new_key, i + 1, preserve_types)

\* AdvancedJsonProcessorAdapter.flatten_json with null_value at its default
AdvancedFlattenItems(json_data, parent_key, p, preserve_types) ==
  IF p > Len(KeyOrder) THEN <<>>
  ELSE IF KeyOrder[p] \notin DOMAIN json_data
       THEN AdvancedFlattenItems(json_data, parent_key, p + 1, preserve_types)
       ELSE LET value == json_data[KeyOrder[p]]
                new_key == NewKey(parent_key, KeyOrder[p])
            IN (IF value.tag = "dict"
                THEN AdvancedFlattenItems(value.fields, new_key, 1,
                                          preserve_types)
                ELSE IF value.tag = "list"
                     THEN (IF Len(value.items) = 0
                           THEN <<[k |-> new_key,
                                   v |-> IF preserve_types THEN Str("[]")
                                         ELSE Str("")]>>
                           ELSE AdvancedFlattenListItems(value.items, new_key,
                                                         1, preserve_types))
                     ELSE IF value.tag = "null"
                          THEN <<[k |-> new_key, v |-> Str("")]>>
                          ELSE <<[k |-> new_key, v |-> value]>>)
               \o AdvancedFlattenItems(json_data, parent_key, p + 1,
                                       preserve_types)

AdvancedFlattenJsonData(json_data, preserve_types) ==
  DictOfItems(AdvancedFlattenItems(json_data.fields, "", 1, preserve_types))

\* the flattener with the preserve_types option
FlattenDocumentAdvanced(preserve_types) ==
  /\ calc.stage = "json"
  /\ calc' = [stage |-> "flat", adapter |-> "AdvancedJsonProcessorAdapter",
              preserve_types |-> preserve_types, json_data |-> calc.json_data,
              flattened |-> AdvancedFlattenJsonData(calc.json_data,
                                                    preserve_types)]
  /\ UNCHANGED <<store, artifact, result, hist, added, now, runs>>

NextFlatten ==
  \/ FlattenDocument
  \/ \E preserve_types \in BOOLEAN : FlattenDocumentAdvanced(preserve_types)

SpecFlatten == InitFlatten /\ [][NextFlatten]_vars

\* C20: flatten_json returns a flat row in which no key maps to a dict or
\* a list, whatever the nesting of objects and lists in the input.
C20_NoKeyMapsToContainer ==
  calc.stage = "flat" =>
    \A key \in DOMAIN calc.flattened : ~IsContainer(calc.flattened[key])

\* the top-level fields of the flattened document that hold an empty list
EmptyListFields ==
  {key \in DOMAIN calc.json_data.fields :
     calc.json_data.fields[key] = List(<<>>)}

\* C21: a field that holds an empty list is a key of the flat row, mapped to
\* the empty string by default and to "[]" when the preserve option is on.
C21_EmptyListPolicy ==
  calc.stage = "flat" =>
    \A key \in EmptyListFields :
      /\ key \in DOMAIN calc.flattened
      /\ calc.flattened[key] =
           (IF calc.preserve_types THEN Str("[]") ELSE Str(""))

\* --------------------------------------------------------- escaping alone
\* Text is a sequence of characters.  The characters given to the escaper:
\* a plain one, and the ones its rules name.
Quote == "\""

Chars == {"x", ",", Quote, "\n", "\r", "\t"}

Texts == UNION {[1..n -> Chars] : n \in 0..MaxTextLen}

Text(s) == [tag |-> "text", chars |-> s]

Bool(b) == [tag |-> "bool", b |-> b]

EscapeInputs == {Null} \cup {Text(s) : s \in Texts} \cup {Bool(b) : b \in BOOLEAN}

\* str(value), and str(value).lower() for a boolean
StrOf(value, lower) ==
  IF value.tag = "text" THEN value.chars
  ELSE IF value.b
       THEN (IF lower THEN <<"t", "r", "u", "e">> ELSE <<"T", "r", "u", "e">>)
       ELSE (IF lower THEN <<"f", "a", "l", "s", "e">>
             ELSE <<"F", "a", "l", "s", "e">>)

\* char in str_value, for some char of chars
ContainsAny(str_value, chars) == \E i \in DOMAIN str_value : str_value[i] \in chars

RECURSIVE ReplaceQuotes(_)
\* str_value.replace('"', '""')
ReplaceQuotes(str_value) ==
  IF Len(str_value) = 0 THEN <<>>
  ELSE (IF Head(str_value) = Quote THEN <<Quote, Quote>>
        ELSE <<Head(str_value)>>) \o ReplaceQuotes(Tail(str_value))

\* an escaper that wraps the string without doubling its quotes
QuoteIfNeededNoDoubling(str_value, chars) ==
  IF ContainsAny(str_value, chars)
  THEN <<Quote>> \o str_value \o <<Quote>>
  ELSE str_value

\* the tail of escape_csv_value: quote when one of chars is in the string
QuoteIfNeeded(str_value, chars) ==
  IF ContainsAny(str_value, chars)
  THEN <<Quote>> \o ReplaceQuotes(str_value) \o <<Quote>>
  ELSE str_value

\* JsonProcessorAdapter.escape_csv_value
EscapeCsvValue(value) ==
  IF value.tag = "null" THEN <<>>
  ELSE QuoteIfNeeded(StrOf(value, FALSE), {",", Quote, "\n", "\r"})

\* AdvancedJsonProcessorAdapter.escape_csv_value, null_value at its default
AdvancedEscapeCsvValue(value, preserve_types) ==
  IF value.tag = "null" THEN <<>>
  ELSE QuoteIfNeeded(StrOf(value, preserve_types),
                     {",", Quote, "\n", "\r", "\t"})

InitEscape ==
  /\ Idle
  /\ calc \in [stage : {"value"}, value : EscapeInputs]

EscapeValue ==
  /\ calc.stage = "value"
  /\ calc' = [stage |-> "escaped", adapter |-> "JsonProcessorAdapter",
              preserve_types |-> FALSE, value |-> calc.value,
              str_value |-> IF calc.value.tag = "null" THEN <<>>
                            ELSE StrOf(calc.value, FALSE),
              escaped |-> EscapeCsvValue(calc.value)]
  /\ UNCHANGED <<store, artifact, result, hist, added, now, runs>>

EscapeValueAdvanced(preserve_types) ==
  /\ calc.stage = "value"
  /\ calc' = [stage |-> "escaped", adapter |-> "AdvancedJsonProcessorAdapter",
              preserve_types |-> preserve_types, value |-> calc.value,
              str_value |-> IF calc.value.tag = "null" THEN <<>>
                            ELSE StrOf(calc.value, preserve_types),
              escaped |-> AdvancedEscapeCsvValue(calc.value, preserve_types)]
  /\ UNCHANGED <<store, artifact, result, hist, added, now, runs>>

NextEscape ==
  \/ EscapeValue
  \/ \E preserve_types \in BOOLEAN : EscapeValueAdvanced(preserve_types)

SpecEscape == InitEscape /\ [][NextEscape]_vars

\* the number of double quotes among the first n characters of s
QuotesBefore(s, n) == Cardinality({i \in 1..n : s[i] = Quote})

\* e is s between double quotes with every double quote of s doubled
IsQuotedForm(e, s) ==
  /\ Len(e) = Len(s) + QuotesBefore(s, Len(s)) + 2
  /\ e[1] = Quote
  /\ e[Len(e)] = Quote
  /\ \A i \in DOMAIN s :
       /\ e[1 + i + QuotesBefore(s, i - 1)] = s[i]
       /\ s[i] = Quote => e[2 + i + QuotesBefore(s, i - 1)] = Quote

\* C22 as stated: escape_csv_value returns the string form between double quotes with
\* every embedded double quote doubled exactly when the string form holds a
\* comma, a double quote, a carriage return or a newline; otherwise it
\* returns the string form unchanged; null gives the null placeholder.
C22_CsvEscaping ==
  calc.stage = "escaped" =>
    IF calc.value.tag = "null" THEN calc.escaped = <<>>
    ELSE IF ContainsAny(calc.str_value, {",", Quote, "\n", "\r"})
         THEN IsQuotedForm(calc.escaped, calc.str_value)
         ELSE calc.escaped = calc.str_value

\* C22: escape_csv_value returns the string form between double quotes with
\* every embedded double quote doubled exactly when the string form holds a
\* comma, a double quote, a carriage return or a newline, or, in
\* AdvancedJsonProcessorAdapter, a tab; otherwise it returns the string form
\* unchanged; null gives the null placeholder.
C22_CsvEscapingByAdapter ==
  calc.stage = "escaped" =>
    IF calc.value.tag = "null" THEN calc.escaped = <<>>
    ELSE IF ContainsAny(calc.str_value,
                        {",", Quote, "\n", "\r"}
                          \cup (IF calc.adapter = "AdvancedJsonProcessorAdapter"
                                THEN {"\t"} ELSE {}))
         THEN IsQuotedForm(calc.escaped, calc.str_value)
         ELSE calc.escaped = calc.str_value

C22_Witness ==
  /\ calc.stage = "escaped"
  /\ calc.adapter = "AdvancedJsonProcessorAdapter"
  /\ calc.str_value = <<"x", Quote, "\t">>
  /\ calc.escaped = <<Quote, "x", Quote, Quote, "\t", Quote>>

\* ------------------------------------------- one incremental run alone
\* Source objects as the selector can meet them: those of Objects, and
\* objects whose timestamp field holds a string.
SelectorObjects ==
  Objects \cup [kind : {"json"}, top : {NotANumber}, meta : MetaVals]

\* a listing, and how many of its objects the initial run already saw
InitSelect ==
  /\ Idle
  /\ calc \in {c \in [stage : {"listing"},
                      files : UNION {[1..n -> SelectorObjects] :
                                       n \in 0..MaxBatch},
                      seen : 0..MaxBatch] :
                 c.seen <= Len(c.files)}

\* an initial run over the objects seen so far, then one run over the
\* whole listing
RunOnListing(storeOk) ==
  /\ calc.stage = "listing"
  /\ LET first == GenerateInitialCsv(SubSeq(calc.files, 1, calc.seen), TRUE,
                                     FirstNow, NoArtifact)
         r == ConsolidateFiles(calc.files, first.stored, storeOk, FirstNow + 1)
     IN calc' = [stage |-> "ran", files |-> calc.files, seen |-> calc.seen,
                 stored |-> first.stored, written |-> first.result.metadata,
                 store_ok |-> storeOk,
                 new_files |-> r.new_files, store_calls |-> r.store_calls,
                 result |-> r.result, after |-> r.stored]
  /\ UNCHANGED <<store, artifact, result, hist, added, now, runs>>

NextSelect == \E storeOk \in BOOLEAN : RunOnListing(storeOk)

SpecSelect == InitSelect /\ [][NextSelect]_vars

\* the selector cannot determine the timestamp of the object: it does not
\* parse, it has no timestamp field, or the field is not a number
Undeterminable(o) ==
  o.kind # "json" \/ o.top = Absent \/ o.top = NotANumber

\* the threshold the selector of the run compared with
SelectorThreshold == UnixToMicropython(DecodeHeader(calc.stored.meta).last_entry)

\* C23: in the new-file selection an object whose timestamp cannot be
\* determined is left out of the work list and does not make the run fail;
\* the objects after it are still examined, so every object with a newer
\* timestamp is in the work list.
C23_UndeterminableExcluded ==
  (calc.stage = "ran" /\ calc.stored.exists) =>
    /\ \A i \in DOMAIN calc.files :
         Undeterminable(calc.files[i]) => i \notin Range(calc.new_files)
    /\ \A i \in DOMAIN calc.files :
         (~Undeterminable(calc.files[i])
            /\ calc.files[i].top > SelectorThreshold)
           => i \in Range(calc.new_files)
    /\ calc.result.error_message \in {"", "No new files to process"}
    /\ calc.result.success = (calc.store_calls = 0 \/ calc.store_ok)

C23_Witness ==
  /\ calc.stage = "ran"
  /\ calc.stored.exists
  /\ calc.seen = 1
  /\ Len(calc.files) = calc.seen + 1
  /\ Undeterminable(calc.files[1])
  /\ calc.new_files = <<Len(calc.files)>>
  /\ calc.result.success
  /\ Len(calc.after.rows) = Len(calc.stored.rows) + 1

\* the reading timestamps, in the standard epoch, of the objects the last
\* run processed
ProcessedTimestamps ==
  {ReadingTimestamp(hist.listing[i]) :
     i \in {j \in Range(ParsedCandidates) : hist.listing[j].meta # Absent}}

\* C24: the last_entry of the metadata of a run that processed an object
\* with a reading timestamp is the maximum of the reading timestamps of
\* the objects processed in that run, in the standard epoch; a run that
\* processed no such object falls back to the current time.
C24_LastEntryIsMaxProcessed ==
  (hist.path # "none" /\ Len(hist.new_files) > 0) =>
    IF ProcessedTimestamps # {}
    THEN /\ result.metadata.last_entry \in ProcessedTimestamps
         /\ \A t \in ProcessedTimestamps : t <= result.metadata.last_entry
    ELSE result.metadata.last_entry = now

C24_Witness ==
  /\ hist.path # "none"
  /\ Len(ParsedCandidates) = 2
  /\ hist.listing[ParsedCandidates[1]].meta = 804000002
  /\ hist.listing[ParsedCandidates[2]].meta = 30
  /\ result.metadata.last_entry = 1750684802

\* last_entry as the run read it from the header, after decoding
DecodedLastEntry == DecodeHeader(calc.stored.meta).last_entry

\* C25: decoding the header replaces a last_entry below 1_000_000_000 by
\* last_entry + 946684800 and leaves one of 1_000_000_000 or more
\* unchanged, and the value the selector then works from is the
\* standard-epoch last_entry that the run which wrote the header computed.
C25_DecodedThresholdIsStandardEpoch ==
  (calc.stage = "ran" /\ calc.stored.exists) =>
    /\ calc.stored.meta.last_entry < 1000000000 =>
         DecodedLastEntry = calc.stored.meta.last_entry + 946684800
    /\ calc.stored.meta.last_entry >= 1000000000 =>
         DecodedLastEntry = calc.stored.meta.last_entry
    /\ DecodedLastEntry = calc.written.last_entry

\* ------------------------------------------- device side: ApiHttpService
\* A call of ApiHttpService.send_data.  A sensor dictionary is held as the
\* set of measurement fields it carries, metadata as the set of its fields;
\* numeric says whether every measurement value converts with float(),
\* timestamp_is_int whether metadata.timestamp is an int.
ExpectedMeasurements == {"temperature", "humidity", "voltage", "current", "power"}

ExpectedMetadata == {"device_id", "timestamp", "location", "version"}

SendInputs ==
  [hyt221 : SUBSET {"temperature", "humidity"},
   ina219_1 : SUBSET {"voltage", "current", "power"},
   ina219_2 : {{}, {"voltage", "current", "power"}},
   metadata : SUBSET ExpectedMetadata,
   numeric : BOOLEAN, timestamp_is_int : BOOLEAN]

\* the payload create_sensor_payload builds
SensorPayload(in) ==
  [measurements |-> in.hyt221 \cup in.ina219_1 \cup in.ina219_2,
   metadata |-> in.metadata]

\* ApiContractAdapter.validate_payload raises ValueError
ValidatePayloadRaises(payload, timestamp_is_int) ==
  \/ ~(ExpectedMeasurements \subseteq payload.measurements)
  \/ ~(ExpectedMetadata \subseteq payload.metadata)
  \/ ~timestamp_is_int

\* ApiContractAdapter.create_sensor_payload raises ValueError
CreateSensorPayloadRaises(in) ==
  \/ (SensorPayload(in).measurements # {} /\ ~in.numeric)
  \/ ~(ExpectedMetadata \subseteq in.metadata)
  \/ ValidatePayloadRaises(SensorPayload(in), in.timestamp_is_int)

NoPayload == [measurements |-> {}, metadata |-> {}]

NoSendResult == [success |-> FALSE, error |-> "none"]

\* a service that hands the payload to the HTTP adapter whatever the
\* validation said
AfterValidationSendsAnyway(c) ==
  [c EXCEPT !.stage = "validated", !.validated_payload = SensorPayload(c.in)]

\* send_data, lines 91-95 and 100-101: the state of the call after
\* create_sensor_payload returned or raised
AfterValidation(c) ==
  IF CreateSensorPayloadRaises(c.in)
  THEN [c EXCEPT !.stage = "returned", !.raised = TRUE,
                 !.result = [success |-> FALSE,
                             error |-> "API contract validation error"]]
  ELSE [c EXCEPT !.stage = "validated", !.validated_payload = SensorPayload(c.in)]

\* HttpAdapter.send_data: not ready, the POST raised, or the response
HttpAdapterSendData(ready, posted) ==
  IF ~ready THEN [success |-> FALSE, error |-> "Network not connected"]
  ELSE IF ~posted THEN [success |-> FALSE, error |-> "exception"]
       ELSE [success |-> TRUE, error |-> "none"]

InitSend ==
  /\ Idle
  /\ calc \in [stage : {"called"}, in : SendInputs, raised : {FALSE},
               validated_payload : {NoPayload}, http_calls : {<<>>},
               result : {NoSendResult}]

\* send_data calls create_sensor_payload
Validate ==
  /\ calc.stage = "called"
  /\ calc' = AfterValidation(calc)
  /\ UNCHANGED <<store, artifact, result, hist, added, now, runs>>

\* send_data, line 98: the validated payload goes to the HTTP adapter and
\* its answer is returned
HttpSend(ready, posted) ==
  /\ calc.stage = "validated"
  /\ calc' = [calc EXCEPT !.stage = "returned",
                          !.http_calls = Append(@, calc.validated_payload),
                          !.result = HttpAdapterSendData(ready, posted)]
  /\ UNCHANGED <<store, artifact, result, hist, added, now, runs>>

NextSend ==
  \/ Validate
  \/ \E ready \in BOOLEAN, posted \in BOOLEAN : HttpSend(ready, posted)

SpecSend == InitSend /\ [][NextSend]_vars

C28_SelectorAgreesWithTracker ==
  hist.path = "incremental" =>
    \A i \in DOMAIN hist.listing :
      (hist.listing[i].kind = "json" /\ hist.listing[i].meta # Absent) =>
        (i \in Range(hist.new_files)
           <=> ReadingTimestamp(hist.listing[i]) > hist.before.meta.last_entry)

\* C29: a run that found an artifact whose header parses never executes
\* the initial path: a failure raised later (here: reading the body) ends
\* the run with success=false and leaves the stored artifact as it was.
C29_NoInitialAfterMetadataExtracted ==
  (hist.path # "none" /\ HeaderParses(hist.before)) =>
    /\ hist.path = "incremental"
    /\ ~BodyParses(hist.before) =>
         /\ ~result.success
         /\ hist.store_calls = 0
         /\ artifact.meta = hist.before.meta
         /\ artifact.rows = hist.before.rows

\* C30: a run that finds no candidate object (incremental with no newer
\* object, initial with an empty listing) never calls store_file and
\* leaves the stored artifact, or its absence, exactly as it was; no run
\* calls store_file more than once.
C30_NoOpLeavesStore ==
  hist.path # "none" =>
    /\ hist.store_calls \in {0, 1}
    /\ Len(hist.new_files) = 0 =>
         /\ hist.store_calls = 0
         /\ artifact = hist.before
    /\ hist.store_calls = 0 => artifact = hist.before

C30_Witness ==
  /\ hist.path = "incremental"
  /\ hist.new_files = <<>>
  /\ Len(hist.listing) > 0
  /\ Len(hist.before.rows) > 0
  /\ hist.store_ok
  /\ hist.store_calls = 0
  /\ artifact = hist.before

====
